---- MODULE Spec2Model ----
(***************************************************************************)
(* Model of the voice registry (app/services/voice_manager.py) and of the  *)
(* synthesis service (app/services/tts_service.py): its lazy model loading *)
(* and its generate pipeline, with the post-processing of                  *)
(* app/utils/audio.py.                                                     *)
(*                                                                         *)
(* Strings the code computes on (display names, slugs, ids) are sequences  *)
(* of one-character strings, so that slugging and suffixing are computed   *)
(* and not assumed.  The disk (voice files, directories, metadata file and *)
(* its temporary sibling) survives a crash; the in-memory map, the lock    *)
(* and every thread's position do not.                                     *)
(***************************************************************************)
EXTENDS FiniteSets, Integers, Naturals, Sequences, TLC

VARIABLES
    pc,          \* pc[0]: the constructing (main) thread; pc[t]: request thread t
    lock,        \* VoiceManager._lock: the set holding its owner, empty when free
    voices,      \* VoiceManager._voices: insertion-ordered dict, as a sequence of Voice
    frame,       \* frame[t]: the local variables of the call thread t is executing
    ret,         \* ret[t]: what the call of thread t returned or raised
    meta,        \* the metadata file (settings.metadata_path)
    tmp,         \* its temporary sibling (metadata_path.with_suffix(".tmp"))
    files,       \* files under the voices root and the output root: path -> content
    dirs,        \* sub-directories of the voices root
    cfgSource,   \* settings.default_voice_source: "unset", "missing" or "present"
    clock,       \* datetime.now(timezone.utc), in seconds
    saved,       \* history: the map as it was at the last completed _save
    loaded,      \* history: the map as _load left it in the running bootstrap
    model,       \* TTSService._model: "none" or "loaded"
    device,      \* TTSService._device
    modelVersion,\* TTSService._model_version
    mlock,       \* TTSService._lock: the set holding its owner, empty when free
    loadCount,   \* number of IndexTTS2(...) constructions that succeeded
    failCount,   \* number of loads that failed (import or constructor)
    crashes      \* number of times the process has died

vars == <<pc, lock, voices, frame, ret, meta, tmp, files, dirs, cfgSource, clock,
          saved, loaded, model, device, modelVersion, mlock, loadCount, failCount,
          crashes>>

vmVars == <<lock, voices, meta, tmp, files, dirs, cfgSource, clock, saved, loaded, crashes>>

modelVars == <<model, device, modelVersion, mlock, loadCount, failCount>>

-----------------------------------------------------------------------------
(* Bounds *)

NThreads == 2

MaxVoices == 2

MaxSeqVoices == 3

MaxClock == 1

MaxFailures == 2

MaxCrashes == 1

MaxOutputs == 2

MaxNameLen == 3

Threads == 1..NThreads

Actors == 0..NThreads

-----------------------------------------------------------------------------
(* Characters and strings *)

LowerLetters ==
    {"a","b","c","d","e","f","g","h","i","j","k","l","m",
     "n","o","p","q","r","s","t","u","v","w","x","y","z"}

DigitSeq == <<"0","1","2","3","4","5","6","7","8","9">>

DigitChars == {DigitSeq[i] : i \in 1..10}

Whitespace == {" "}

\* str.lower() on the characters the inputs are drawn from
Lower(c) == IF c = "A" THEN "a" ELSE c

LowerStr(s) == [i \in 1..Len(s) |-> Lower(s[i])]

\* the complement of the class [^a-z0-9] of _SLUGIFY_RE
IsSlugChar(c) == c \in (LowerLetters \cup DigitChars)

RECURSIVE LStrip(_, _)
LStrip(s, cs) ==
    IF s # <<>> /\ Head(s) \in cs THEN LStrip(Tail(s), cs) ELSE s

RECURSIVE RStrip(_, _)
RStrip(s, cs) ==
    IF s # <<>> /\ s[Len(s)] \in cs THEN RStrip(SubSeq(s, 1, Len(s) - 1), cs) ELSE s

\* str.strip(chars)
Strip(s, cs) == RStrip(LStrip(s, cs), cs)

RECURSIVE DropNonSlug(_)
DropNonSlug(s) ==
    IF s # <<>> /\ ~IsSlugChar(Head(s)) THEN DropNonSlug(Tail(s)) ELSE s

\* _SLUGIFY_RE.sub("-", s): every maximal run outside [a-z0-9] becomes one "-"
RECURSIVE SubRuns(_)
SubRuns(s) ==
    IF s = <<>> THEN <<>>
    ELSE IF IsSlugChar(Head(s)) THEN <<Head(s)>> \o SubRuns(Tail(s))
    ELSE <<"-">> \o SubRuns(DropNonSlug(Tail(s)))

\* str(n) for a natural number
RECURSIVE ToDigits(_)
ToDigits(n) ==
    IF n < 10 THEN <<DigitSeq[n + 1]>>
    ELSE ToDigits(n \div 10) \o <<DigitSeq[(n % 10) + 1]>>

DigitValue(c) == CHOOSE d \in 0..9 : DigitSeq[d + 1] = c

RECURSIVE FromDigits(_)
FromDigits(s) ==
    IF s = <<>> THEN 0
    ELSE 10 * FromDigits(SubSeq(s, 1, Len(s) - 1)) + DigitValue(s[Len(s)])

VoicePrefix == <<"v","o","i","c","e","-">>

\* the faulty variant does not strip
SlugOf_NoStrip(value) == SubRuns(LowerStr(value))

\* _SLUGIFY_RE.sub("-", value.lower()).strip("-")
SlugOf(value) == Strip(SubRuns(LowerStr(value)), {"-"})

\* _slugify(value); `now` is the clock as read when the slug is empty
Slugify(value, now) ==
    IF SlugOf(value) # <<>> THEN SlugOf(value) ELSE VoicePrefix \o ToDigits(now)

\* What the clock may show when _slugify reads it: any time from the last one
\* seen.  `clock` is that last time, and created_at is stamped with it: the
\* only read whose value decides anything is the one of _slugify.
Times == {now \in 0..MaxClock : now >= clock}

\* f"{slug}-{counter}"
Suffixed(slug, counter) == slug \o <<"-">> \o ToDigits(counter)

-----------------------------------------------------------------------------
(* Settings *)

DefaultVoiceId == <<"d","e","f","a","u","l","t">>

DefaultVoiceName == <<"D","e","f","a","u","l","t">>

\* the file name of settings.default_voice_source
SourceName == [stem |-> "voice_01", ext |-> ".wav"]

VoicesDir == "voices_dir"

SourceStates == {"unset", "missing", "present"}

-----------------------------------------------------------------------------
(* Inputs *)

\* display names handed to add_voice
Names ==
    { <<>>, <<" ">>, <<"A","!">>, <<"!">>, <<"a"," ","2">> }

NoFilename == [stem |-> "", ext |-> ""]

\* upload.filename: absent, without an extension, with one
UploadNames ==
    { NoFilename, [stem |-> "clip", ext |-> ""], [stem |-> "clip", ext |-> ".mp3"] }

-----------------------------------------------------------------------------
(* Paths and files *)

\* voices_dir / dirname / filename
PathOf(dirname, stem, ext) ==
    [root |-> VoicesDir, dir |-> dirname, stem |-> stem, ext |-> ext]

\* file_path.relative_to(settings.voices_dir)
RelativeTo(p) == [dir |-> p.dir, stem |-> p.stem, ext |-> p.ext]

\* (settings.voices_dir / voice.path).resolve()
Resolve(rel) == PathOf(rel.dir, rel.stem, rel.ext)

Exists(p) == p \in DOMAIN files

ExistsIn(fs, p) == p \in DOMAIN fs

Partial == "partial"

Complete == "complete"

PutFile(fs, p, c) == [q \in (DOMAIN fs) \cup {p} |-> IF q = p THEN c ELSE fs[q]]

RemoveFile(fs, p) == [q \in (DOMAIN fs) \ {p} |-> fs[q]]

NoFiles == [q \in {} |-> Partial]

Absent == [state |-> "absent", records |-> <<>>]

PartialDoc == [state |-> "partial", records |-> <<>>]

CompleteDoc(records) == [state |-> "complete", records |-> records]

-----------------------------------------------------------------------------
(* The in-memory map and its serialisation *)

Voice(id, name, rel, now) == [id |-> id, name |-> name, path |-> rel, created_at |-> now]

Ids(vs) == {vs[i].id : i \in 1..Len(vs)}

Has(vs, id) == \E i \in 1..Len(vs) : vs[i].id = id

\* vs[v.id] = v on an insertion-ordered dict
DictSet(vs, v) ==
    IF Has(vs, v.id)
    THEN [i \in 1..Len(vs) |-> IF vs[i].id = v.id THEN v ELSE vs[i]]
    ELSE Append(vs, v)

NoPath == [dir |-> <<>>, stem |-> "", ext |-> ""]

\* None, where a Voice is expected
NoVoice == [id |-> <<>>, name |-> <<>>, path |-> NoPath, created_at |-> 0]

\* vs.get(id): the entry, or None
DictGet(vs, id) ==
    IF Has(vs, id) THEN vs[CHOOSE i \in 1..Len(vs) : vs[i].id = id] ELSE NoVoice

\* voice.model_dump() under json.dumps(default=str)
Dump(v) == [id |-> v.id, name |-> v.name, path |-> v.path, created_at |-> ToDigits(v.created_at)]

\* the payload of _save
Payload(vs) == [i \in 1..Len(vs) |-> Dump(vs[i])]

VoiceFields == {"id", "name", "path", "created_at"}

\* Voice(**item) succeeds
WellFormed(item) == VoiceFields \subseteq DOMAIN item

\* Voice(**item)
ParseVoice(item) == Voice(item.id, item.name, item.path, FromDigits(item.created_at))

\* one iteration of the loop of _load
LoadItem_NoExistsCheck(acc, item, fs) ==
    IF ~WellFormed(item) THEN acc ELSE DictSet(acc, ParseVoice(item))

LoadItem(acc, item, fs) ==
    IF ~WellFormed(item) THEN acc
    ELSE IF ExistsIn(fs, Resolve(ParseVoice(item).path)) THEN DictSet(acc, ParseVoice(item))
    ELSE acc

RECURSIVE LoadRecords(_, _, _)
LoadRecords(acc, items, fs) ==
    IF items = <<>> THEN acc
    ELSE LoadRecords(LoadItem(acc, Head(items), fs), Tail(items), fs)

\* _load on a metadata file that exists: json.loads, then the loop
LoadDoc(doc, fs) == LoadRecords(<<>>, doc.records, fs)

-----------------------------------------------------------------------------
(* Call frames and results *)

NoneArg == [given |-> FALSE, id |-> <<>>]

NoTarget == [root |-> VoicesDir, dir |-> <<>>, stem |-> "", ext |-> ""]

\* None, where the path of a generated file is expected
NoAudio == [root |-> "", dir |-> <<>>, stem |-> "", ext |-> ""]

\* the locals of add_voice, get_voice and generate; infers and posts count the
\* calls of the call in progress to the synthesis model and to the post-processor
BlankFrame ==
    [name |-> <<>>, fname |-> NoFilename, slug |-> <<>>, candidate |-> <<>>,
     counter |-> 0, target |-> NoTarget, voice |-> NoVoice, payload |-> <<>>,
     arg |-> NoneArg,
     call |-> "", text |-> <<>>, speed |-> 0, pitch |-> 0, uid |-> 0,
     generated |-> NoAudio, failed |-> FALSE, infers |-> 0, posts |-> 0]

NoRet == [op |-> "none", status |-> 0, voice |-> NoVoice, listing |-> <<>>, audio |-> NoPath]

Returned(op, voice) ==
    [op |-> op, status |-> 200, voice |-> voice, listing |-> <<>>, audio |-> NoPath]

Listed(vs) ==
    [op |-> "list_voices", status |-> 200, voice |-> NoVoice, listing |-> vs, audio |-> NoPath]

\* raise HTTPException(status_code=status) (or, for 500, any exception)
Raised(op, status) ==
    [op |-> op, status |-> status, voice |-> NoVoice, listing |-> <<>>, audio |-> NoPath]

-----------------------------------------------------------------------------
(* Initial state: the process is not running and the disk is empty *)

Init ==
    /\ pc = [a \in Actors |-> IF a = 0 THEN "down" ELSE "idle"]
    /\ lock = {}
    /\ voices = <<>>
    /\ frame = [a \in Actors |-> BlankFrame]
    /\ ret = [a \in Actors |-> NoRet]
    /\ meta = Absent
    /\ tmp = Absent
    /\ files = NoFiles
    /\ dirs = {}
    /\ cfgSource = "unset"
    /\ clock = 0
    /\ saved = <<>>
    /\ loaded = <<>>
    /\ model = "none"
    /\ device = "none"
    /\ modelVersion = "none"
    /\ mlock = {}
    /\ loadCount = 0
    /\ failCount = 0
    /\ crashes = 0

Goto(a, label) == pc' = [pc EXCEPT ![a] = label]

Serving == pc[0] = "serving"

-----------------------------------------------------------------------------
(* VoiceManager.__init__ and bootstrap, run by the main thread *)

\* VoiceManager(settings): a fresh lock and an empty map; bootstrap() begins
Construct(src) ==
    /\ pc[0] = "down"
    /\ cfgSource' = src
    /\ voices' = <<>>
    /\ lock' = {}
    /\ loaded' = <<>>
    /\ Goto(0, "boot")
    /\ UNCHANGED <<frame, ret, meta, tmp, files, dirs, clock, saved, modelVars, crashes>>

\* bootstrap: with self._lock
BootstrapLock ==
    /\ pc[0] = "boot"
    /\ lock = {}
    /\ lock' = {0}
    /\ Goto(0, "load")
    /\ UNCHANGED <<voices, frame, ret, meta, tmp, files, dirs, cfgSource, clock,
                   saved, loaded, modelVars, crashes>>

\* the faulty variant gives up on the first record that does not parse
Load_Strict ==
    /\ pc[0] = "load"
    /\ IF meta.state = "partial"
             \/ \E i \in 1..Len(meta.records) : ~WellFormed(meta.records[i])
       THEN /\ Goto(0, "down")
            /\ UNCHANGED <<voices, loaded>>
       ELSE /\ voices' = IF meta.state = "absent" THEN <<>> ELSE LoadDoc(meta, files)
            /\ loaded' = voices'
            /\ Goto(0, "loaded")
    /\ UNCHANGED <<lock, frame, ret, meta, tmp, files, dirs, cfgSource, clock,
                   saved, modelVars, crashes>>

\* _load; a document json.loads cannot parse ends the construction
Load ==
    /\ pc[0] = "load"
    /\ IF meta.state = "partial"
       THEN /\ Goto(0, "down")
            /\ UNCHANGED <<voices, loaded>>
       ELSE /\ voices' = IF meta.state = "absent" THEN <<>> ELSE LoadDoc(meta, files)
            /\ loaded' = voices'
            /\ Goto(0, "loaded")
    /\ UNCHANGED <<lock, frame, ret, meta, tmp, files, dirs, cfgSource, clock,
                   saved, modelVars, crashes>>

\* the faulty variant seeds whatever _load found
AfterLoad_AlwaysSeed ==
    /\ pc[0] = "loaded"
    /\ Goto(0, "seed")
    /\ UNCHANGED <<lock, voices, frame, ret, meta, tmp, files, dirs, cfgSource, clock,
                   saved, loaded, modelVars, crashes>>

\* bootstrap: if not self._voices: self._seed_default_voice()
AfterLoad ==
    /\ pc[0] = "loaded"
    /\ IF voices = <<>>
       THEN Goto(0, "seed") /\ UNCHANGED lock
       ELSE Goto(0, "boot_done") /\ lock' = {}
    /\ UNCHANGED <<voices, frame, ret, meta, tmp, files, dirs, cfgSource, clock,
                   saved, loaded, modelVars, crashes>>

\* the faulty variant has no early return
SeedCheck_NoCheck ==
    /\ pc[0] = "seed"
    /\ dirs' = dirs \cup {DefaultVoiceId}
    /\ Goto(0, "seed_copy")
    /\ lock' = lock
    /\ UNCHANGED <<voices, frame, ret, meta, tmp, files, cfgSource, clock,
                   saved, loaded, modelVars, crashes>>

\* _seed_default_voice up to dest_dir.mkdir
SeedCheck ==
    /\ pc[0] = "seed"
    /\ IF cfgSource # "present"
       THEN Goto(0, "boot_done") /\ lock' = {} /\ dirs' = dirs
       ELSE Goto(0, "seed_copy") /\ lock' = lock /\ dirs' = dirs \cup {DefaultVoiceId}
    /\ UNCHANGED <<voices, frame, ret, meta, tmp, files, cfgSource, clock,
                   saved, loaded, modelVars, crashes>>

\* shutil.copy2(source_path, dest_file): the destination is opened for writing
SeedOpen ==
    /\ pc[0] = "seed_copy"
    /\ frame' = [frame EXCEPT ![0].target =
                    PathOf(DefaultVoiceId, SourceName.stem, SourceName.ext)]
    /\ files' = PutFile(files, frame'[0].target, Partial)
    /\ Goto(0, "seed_write")
    /\ UNCHANGED <<lock, voices, ret, meta, tmp, dirs, cfgSource, clock,
                   saved, loaded, modelVars, crashes>>

\* shutil.copy2: the bytes are copied and the file closed
SeedWrite ==
    /\ pc[0] = "seed_write"
    /\ files' = PutFile(files, frame[0].target, Complete)
    /\ Goto(0, "seed_set")
    /\ UNCHANGED <<lock, voices, frame, ret, meta, tmp, dirs, cfgSource, clock,
                   saved, loaded, modelVars, crashes>>

\* self._voices[default_voice_id] = Voice(...)
SeedSet ==
    /\ pc[0] = "seed_set"
    /\ voices' = DictSet(voices, Voice(DefaultVoiceId, DefaultVoiceName,
                                       RelativeTo(frame[0].target), clock))
    /\ Goto(0, "save_open")
    /\ UNCHANGED <<lock, frame, ret, meta, tmp, files, dirs, cfgSource, clock,
                   saved, loaded, modelVars, crashes>>

\* __init__ returns: the application starts serving requests
Serve ==
    /\ pc[0] = "boot_done"
    /\ Goto(0, "serving")
    /\ loaded' = <<>>
    /\ frame' = [frame EXCEPT ![0] = BlankFrame]
    /\ UNCHANGED <<lock, voices, ret, meta, tmp, files, dirs, cfgSource, clock,
                   saved, modelVars, crashes>>

-----------------------------------------------------------------------------
(* _save, run by whoever holds the lock *)

\* The payload is built and the destination opened for writing.  The faulty variant
\* writes the metadata file in place.
SaveOpen_InPlace(a) ==
    /\ pc[a] = "save_open"
    /\ frame' = [frame EXCEPT ![a].payload = Payload(voices)]
    /\ meta' = PartialDoc
    /\ Goto(a, "save_write")
    /\ UNCHANGED <<lock, voices, ret, tmp, files, dirs, cfgSource, clock,
                   saved, loaded, modelVars, crashes>>

\* payload = ...; tmp_path.write_text(...): the temporary file is opened (truncated)
SaveOpen(a) ==
    /\ pc[a] = "save_open"
    /\ frame' = [frame EXCEPT ![a].payload = Payload(voices)]
    /\ tmp' = PartialDoc
    /\ Goto(a, "save_write")
    /\ UNCHANGED <<lock, voices, ret, meta, files, dirs, cfgSource, clock,
                   saved, loaded, modelVars, crashes>>

\* tmp_path.write_text(...): the document is written and the file closed
SaveWrite(a) ==
    /\ pc[a] = "save_write"
    /\ tmp' = CompleteDoc(frame[a].payload)
    /\ Goto(a, "save_replace")
    /\ UNCHANGED <<lock, voices, frame, ret, meta, files, dirs, cfgSource, clock,
                   saved, loaded, modelVars, crashes>>

\* tmp_path.replace(metadata_path); _save returns to _seed_default_voice (main
\* thread) or to register_voice (request thread), which leaves the lock and returns
SaveReplace(a) ==
    /\ pc[a] = "save_replace"
    /\ meta' = tmp
    /\ tmp' = Absent
    /\ saved' = voices
    /\ lock' = {}
    /\ frame' = [frame EXCEPT ![a].payload = <<>>]
    /\ IF a = 0
       THEN Goto(a, "boot_done") /\ ret' = ret
       ELSE Goto(a, "ret") /\ ret' = [ret EXCEPT ![a] = Returned("add_voice", frame[a].voice)]
    /\ UNCHANGED <<voices, files, dirs, cfgSource, clock, loaded, modelVars, crashes>>

-----------------------------------------------------------------------------
(* add_voice and register_voice, run by a request thread *)

\* Path(upload.filename or "voice.wav").suffix or ".wav"
Suffix(fname) ==
    LET f == IF fname = NoFilename THEN [stem |-> "voice", ext |-> ".wav"] ELSE fname
    IN  IF f.ext # "" THEN f.ext ELSE ".wav"

\* add_voice calls in flight
Adding == {t \in Threads : pc[t] \notin {"idle", "ret"} }

\* the guard of add_voice, without the check of the name
AddVoiceStart_NoCheck(t, name, fname, now) ==
    /\ Serving
    /\ pc[t] = "idle"
    /\ frame' = [frame EXCEPT ![t] = [BlankFrame EXCEPT
                    !.name = name, !.fname = fname,
                    !.slug = Slugify(name, now),
                    !.candidate = Slugify(name, now)]]
    /\ clock' = IF SlugOf(name) = <<>> THEN now ELSE clock
    /\ Goto(t, "lock")
    /\ ret' = ret
    /\ UNCHANGED <<lock, voices, meta, tmp, files, dirs, cfgSource, saved, loaded,
                   modelVars, crashes>>

\* add_voice: the check of the name, slug = _slugify(voice_name), candidate = slug
AddVoiceStart(t, name, fname, now) ==
    /\ Serving
    /\ pc[t] = "idle"
    /\ IF Strip(name, Whitespace) = <<>>
       THEN /\ ret' = [ret EXCEPT ![t] = Raised("add_voice", 400)]
            /\ frame' = [frame EXCEPT ![t] = [BlankFrame EXCEPT
                            !.name = name, !.fname = fname]]
            /\ clock' = clock
            /\ Goto(t, "ret")
       ELSE /\ frame' = [frame EXCEPT ![t] = [BlankFrame EXCEPT
                            !.name = name, !.fname = fname,
                            !.slug = Slugify(name, now),
                            !.candidate = Slugify(name, now)]]
            /\ clock' = IF SlugOf(name) = <<>> THEN now ELSE clock
            /\ Goto(t, "lock")
            /\ ret' = ret
    /\ UNCHANGED <<lock, voices, meta, tmp, files, dirs, cfgSource, saved, loaded,
                   modelVars, crashes>>

\* with self._lock: counter = 1
AddVoiceLock(t) ==
    /\ pc[t] = "lock"
    /\ lock = {}
    /\ lock' = {t}
    /\ frame' = [frame EXCEPT ![t].counter = 1]
    /\ Goto(t, "loop")
    /\ UNCHANGED <<voices, ret, meta, tmp, files, dirs, cfgSource, clock,
                   saved, loaded, modelVars, crashes>>

\* the faulty variant steps over a suffix
NextCounter_Skip(counter) == counter + 2

\* counter += 1
NextCounter(counter) == counter + 1

\* one test of `while candidate in self._voices`; leaving the loop leaves the lock
AddVoiceLoop(t) ==
    /\ pc[t] = "loop"
    /\ IF Has(voices, frame[t].candidate)
       THEN /\ frame' = [frame EXCEPT
                            ![t].counter = NextCounter(@),
                            ![t].candidate =
                                Suffixed(frame[t].slug, NextCounter(frame[t].counter))]
            /\ UNCHANGED <<pc, lock>>
       ELSE /\ lock' = {}
            /\ Goto(t, "target")
            /\ frame' = frame
    /\ UNCHANGED <<voices, ret, meta, tmp, files, dirs, cfgSource, clock,
                   saved, loaded, modelVars, crashes>>

\* filename = f"prompt{suffix}"; _resolve_target: mkdir, target_dir / filename
AddVoiceTarget(t) ==
    /\ pc[t] = "target"
    /\ dirs' = dirs \cup {frame[t].candidate}
    /\ frame' = [frame EXCEPT ![t].target =
                    PathOf(frame[t].candidate, "prompt", Suffix(frame[t].fname))]
    /\ Goto(t, "open")
    /\ UNCHANGED <<lock, voices, ret, meta, tmp, files, cfgSource, clock,
                   saved, loaded, modelVars, crashes>>

\* target_file.open("wb"): the file is created, or truncated when it exists
AddVoiceOpen(t) ==
    /\ pc[t] = "open"
    /\ files' = PutFile(files, frame[t].target, Partial)
    /\ Goto(t, "copy")
    /\ UNCHANGED <<lock, voices, frame, ret, meta, tmp, dirs, cfgSource, clock,
                   saved, loaded, modelVars, crashes>>

\* shutil.copyfileobj(upload.file, file_obj), and the file is closed
AddVoiceCopy(t) ==
    /\ pc[t] = "copy"
    /\ files' = PutFile(files, frame[t].target, Complete)
    /\ Goto(t, "insert")
    /\ UNCHANGED <<lock, voices, frame, ret, meta, tmp, dirs, cfgSource, clock,
                   saved, loaded, modelVars, crashes>>

\* the faulty variant stores the voice without waiting for the lock
RegisterInsert_NoLock(t) ==
    /\ pc[t] = "insert"
    /\ lock' = lock \cup {t}
    /\ frame' = [frame EXCEPT ![t].voice =
                    Voice(frame[t].candidate, Strip(frame[t].name, Whitespace),
                          RelativeTo(frame[t].target), clock)]
    /\ voices' = DictSet(voices, frame'[t].voice)
    /\ Goto(t, "save_open")
    /\ UNCHANGED <<ret, meta, tmp, files, dirs, cfgSource, clock,
                   saved, loaded, modelVars, crashes>>

\* register_voice: rel_path and the Voice are built, then
\* with self._lock: self._voices[voice.id] = voice
RegisterInsert(t) ==
    /\ pc[t] = "insert"
    /\ lock = {}
    /\ lock' = {t}
    /\ frame' = [frame EXCEPT ![t].voice =
                    Voice(frame[t].candidate, Strip(frame[t].name, Whitespace),
                          RelativeTo(frame[t].target), clock)]
    /\ voices' = DictSet(voices, frame'[t].voice)
    /\ Goto(t, "save_open")
    /\ UNCHANGED <<ret, meta, tmp, files, dirs, cfgSource, clock,
                   saved, loaded, modelVars, crashes>>

-----------------------------------------------------------------------------
(* get_voice and list_voices: the whole body runs under the lock *)

\* voice ids asked for
VoiceIdArgs ==
    { NoneArg, [given |-> TRUE, id |-> <<"a">>] }

\* if voice_id is None: voice_id = self.settings.default_voice_id
ResolveId_Literal(arg) == arg.id

ResolveId(arg) == IF arg.given THEN arg.id ELSE DefaultVoiceId

GetVoice(t, arg) ==
    /\ Serving
    /\ pc[t] = "idle"
    /\ lock = {}
    /\ frame' = [frame EXCEPT ![t] = [BlankFrame EXCEPT !.arg = arg]]
    /\ ret' = [ret EXCEPT ![t] =
                 IF DictGet(voices, ResolveId(arg)) = NoVoice
                 THEN Raised("get_voice", 404)
                 ELSE Returned("get_voice", DictGet(voices, ResolveId(arg)))]
    /\ Goto(t, "ret")
    /\ UNCHANGED <<vmVars, modelVars>>

\* return list(self._voices.values())
ListVoices(t) ==
    /\ Serving
    /\ pc[t] = "idle"
    /\ lock = {}
    /\ frame' = [frame EXCEPT ![t] = BlankFrame]
    /\ ret' = [ret EXCEPT ![t] = Listed(voices)]
    /\ Goto(t, "ret")
    /\ UNCHANGED <<vmVars, modelVars>>

\* the caller has consumed the result; the thread is free for the next request
Return(t) ==
    /\ pc[t] = "ret"
    /\ Goto(t, "idle")
    /\ ret' = [ret EXCEPT ![t] = NoRet]
    /\ frame' = [frame EXCEPT ![t] = BlankFrame]
    /\ UNCHANGED <<vmVars, modelVars>>

-----------------------------------------------------------------------------
(* The environment *)

\* the process dies: memory, locks and thread positions are lost, the disk stays
Crash ==
    /\ pc[0] # "down"
    /\ crashes' = crashes + 1
    /\ pc' = [a \in Actors |-> IF a = 0 THEN "down" ELSE "idle"]
    /\ lock' = {}
    /\ voices' = <<>>
    /\ frame' = [a \in Actors |-> BlankFrame]
    /\ ret' = [a \in Actors |-> NoRet]
    /\ loaded' = <<>>
    /\ model' = "none"
    /\ device' = "none"
    /\ modelVersion' = "none"
    /\ mlock' = {}
    /\ loadCount' = 0
    /\ failCount' = 0
    /\ UNCHANGED <<meta, tmp, files, dirs, cfgSource, clock, saved>>

\* a voice file is deleted out of band while the process is not running
DeleteFile(p) ==
    /\ pc[0] = "down"
    /\ Exists(p)
    /\ files' = RemoveFile(files, p)
    /\ UNCHANGED <<pc, lock, voices, frame, ret, meta, tmp, dirs, cfgSource, clock,
                   saved, loaded, modelVars, crashes>>

-----------------------------------------------------------------------------
(* Next-state relations *)

\* a step of the constructor: bootstrap, _load, _seed_default_voice
MainStep ==
    \/ \E src \in SourceStates : Construct(src)
    \/ BootstrapLock
    \/ Load
    \/ AfterLoad
    \/ SeedCheck
    \/ SeedOpen
    \/ SeedWrite
    \/ SeedSet
    \/ Serve

\* a step of _save by the thread that is in it
SaveStep ==
    \/ \E a \in Actors : SaveOpen(a)
    \/ \E a \in Actors : SaveWrite(a)
    \/ \E a \in Actors : SaveReplace(a)

\* a step of an add_voice call that has begun
AddStep(t) ==
    \/ AddVoiceLock(t)
    \/ AddVoiceLoop(t)
    \/ AddVoiceTarget(t)
    \/ AddVoiceOpen(t)
    \/ AddVoiceCopy(t)
    \/ RegisterInsert(t)

\* a request arrives; `seq` makes it wait until no other request is in progress
Request(names, uploads, room, seq) ==
    \/ \E t \in Threads, name \in names, fname \in uploads, now \in Times :
          /\ seq => \A u \in Threads \ {t} : pc[u] = "idle"
          /\ Len(voices) + Cardinality(Adding) < room
          /\ AddVoiceStart(t, name, fname, now)
    \/ \E t \in Threads, arg \in VoiceIdArgs :
          /\ seq => \A u \in Threads \ {t} : pc[u] = "idle"
          /\ GetVoice(t, arg)
    \/ \E t \in Threads :
          /\ seq => \A u \in Threads \ {t} : pc[u] = "idle"
          /\ ListVoices(t)

\* a step of the running process
Run(names, uploads, room, seq) ==
    \/ MainStep
    \/ SaveStep
    \/ Request(names, uploads, room, seq)
    \/ \E t \in Threads : AddStep(t)
    \/ \E t \in Threads : Return(t)

\* display names of concurrent requests: blank, and two with the same slug
RaceNames == { <<" ">>, <<"a">>, <<"A","!">> }

RaceUploads == { NoFilename }

\* The registry under concurrent requests
Next == Run(RaceNames, RaceUploads, MaxVoices, FALSE)

Spec == Init /\ [][Next]_vars

\* The registry when requests are served one at a time
SeqNext == Run(Names, UploadNames, MaxSeqVoices, TRUE)

SeqSpec == Init /\ [][SeqNext]_vars

CrashNames == { <<" ">>, <<"a">> }

CrashUploads == { NoFilename }

\* The registry when the process may die at any step (at most MaxCrashes times),
\* files may be deleted while it is down, and it is restarted; requests are
\* served one at a time
CrashNext ==
    \/ Run(CrashNames, CrashUploads, MaxVoices, TRUE)
    \/ crashes < MaxCrashes /\ Crash
    \/ \E p \in DOMAIN files : DeleteFile(p)

CrashSpec == Init /\ [][CrashNext]_vars

\* fields a record of the metadata file may have lost
DamagedFields == {"path"}

\* the metadata file is edited out of band while the process is not running:
\* a record loses a field, so that Voice(**item) will not accept it
DamageRecord(i, field) ==
    /\ pc[0] = "down"
    /\ meta.state = "complete"
    /\ i \in 1..Len(meta.records)
    /\ field \in DOMAIN meta.records[i]
    /\ meta' = [meta EXCEPT !.records[i] =
                   [f \in (DOMAIN meta.records[i]) \ {field} |-> meta.records[i][f]]]
    /\ UNCHANGED <<pc, lock, voices, frame, ret, tmp, files, dirs, cfgSource, clock,
                   saved, loaded, modelVars, crashes>>

\* The registry across restarts, when besides voice files being deleted the
\* metadata file may have been damaged while the process was down
LoadNext ==
    \/ CrashNext
    \/ \E i \in 1..Len(meta.records), field \in DamagedFields : DamageRecord(i, field)

LoadSpec == Init /\ [][LoadNext]_vars

\* _save raises OSError: tmp_path.write_text cannot open the temporary file or
\* cannot write all of it, or tmp_path.replace fails.  The exception leaves
\* `with self._lock` and goes to the caller of register_voice; in bootstrap it
\* ends the construction
SaveFail(a) ==
    /\ pc[a] \in {"save_open", "save_write", "save_replace"}
    /\ lock' = {}
    /\ frame' = [frame EXCEPT ![a].payload = <<>>]
    /\ IF a = 0
       THEN Goto(a, "down") /\ ret' = ret
       ELSE Goto(a, "ret") /\ ret' = [ret EXCEPT ![a] = Raised("add_voice", 500)]
    /\ UNCHANGED <<voices, meta, tmp, files, dirs, cfgSource, clock, saved, loaded,
                   modelVars, crashes>>

\* The registry when requests are served one at a time and the disk may refuse
\* the writes of _save
IONext ==
    \/ Run(CrashNames, CrashUploads, MaxVoices, TRUE)
    \/ \E a \in Actors : SaveFail(a)

IOSpec == Init /\ [][IONext]_vars

-----------------------------------------------------------------------------
(* _slugify on its own *)

\* characters of the values handed to _slugify: a lower-case and an upper-case
\* letter, a digit, white space, punctuation, and the hyphen itself
SlugAlphabet == {"a", "A", "2", " ", "!", "-"}

\* every value of at most MaxNameLen characters
SlugValues == UNION { [1..n -> SlugAlphabet] : n \in 0..MaxNameLen }

\* _slugify(value), called by thread t; `now` is what the clock shows if read
SlugifyCall(t, value, now) ==
    /\ pc[t] = "idle"
    /\ frame' = [frame EXCEPT ![t] = [BlankFrame EXCEPT
                    !.call = "_slugify", !.name = value, !.slug = Slugify(value, now)]]
    /\ clock' = IF SlugOf(value) = <<>> THEN now ELSE clock
    /\ ret' = [ret EXCEPT ![t] = Returned("_slugify", NoVoice)]
    /\ Goto(t, "ret")
    /\ UNCHANGED <<lock, voices, meta, tmp, files, dirs, cfgSource, saved, loaded,
                   modelVars, crashes>>

\* _slugify applied to every value, one call at a time
SlugNext ==
    \/ \E t \in Threads, value \in SlugValues, now \in Times :
          /\ \A u \in Threads \ {t} : pc[u] = "idle"
          /\ SlugifyCall(t, value, now)
    \/ \E t \in Threads : Return(t)

-----------------------------------------------------------------------------
(* TTSService.ensure_model_loaded, run by a request thread *)

Loaded == model # "none"

\* if self._model is not None: return
EnsureModelLoaded(t) ==
    /\ Serving
    /\ pc[t] = "idle"
    /\ IF Loaded
       THEN /\ Goto(t, "ret")
            /\ ret' = [ret EXCEPT ![t] = Returned("ensure_model_loaded", NoVoice)]
       ELSE /\ Goto(t, "m_lock")
            /\ ret' = ret
    /\ UNCHANGED <<frame, vmVars, modelVars>>

\* with self._lock
ModelLock(t) ==
    /\ pc[t] = "m_lock"
    /\ mlock = {}
    /\ mlock' = {t}
    /\ Goto(t, "m_check")
    /\ UNCHANGED <<frame, ret, vmVars, model, device, modelVersion, loadCount, failCount>>

\* the second test is missing: whoever gets the lock loads
ModelCheck_NoRecheck(t) ==
    /\ pc[t] = "m_check"
    /\ Goto(t, "m_import")
    /\ UNCHANGED <<ret, mlock>>
    /\ UNCHANGED <<frame, vmVars, model, device, modelVersion, loadCount, failCount>>

\* under the lock: if self._model is not None: return
ModelCheck(t) ==
    /\ pc[t] = "m_check"
    /\ IF Loaded
       THEN /\ Goto(t, "ret")
            /\ ret' = [ret EXCEPT ![t] = Returned("ensure_model_loaded", NoVoice)]
            /\ mlock' = {}
       ELSE /\ Goto(t, "m_import")
            /\ UNCHANGED <<ret, mlock>>
    /\ UNCHANGED <<frame, vmVars, model, device, modelVersion, loadCount, failCount>>

\* the faulty variant raises with the lock still held
ModelImport_KeepLock(t, ok) ==
    /\ pc[t] = "m_import"
    /\ IF ok
       THEN /\ Goto(t, "m_construct")
            /\ UNCHANGED <<ret, failCount>>
       ELSE /\ Goto(t, "ret")
            /\ ret' = [ret EXCEPT ![t] = Raised("ensure_model_loaded", 500)]
            /\ failCount' = failCount + 1
    /\ UNCHANGED <<frame, vmVars, model, device, modelVersion, loadCount, mlock>>

\* from indextts.infer_v2 import IndexTTS2; ImportError is raised as HTTP 500
ModelImport(t, ok) ==
    /\ pc[t] = "m_import"
    /\ IF ok
       THEN /\ Goto(t, "m_construct")
            /\ UNCHANGED <<ret, mlock, failCount>>
       ELSE /\ Goto(t, "ret")
            /\ ret' = [ret EXCEPT ![t] = Raised("ensure_model_loaded", 500)]
            /\ mlock' = {}
            /\ failCount' = failCount + 1
    /\ UNCHANGED <<frame, vmVars, model, device, modelVersion, loadCount>>

\* model = IndexTTS2(...); an exception of the constructor leaves the lock
ModelConstruct(t, ok) ==
    /\ pc[t] = "m_construct"
    /\ IF ok
       THEN /\ Goto(t, "m_set_model")
            /\ loadCount' = loadCount + 1
            /\ UNCHANGED <<ret, mlock, failCount>>
       ELSE /\ Goto(t, "ret")
            /\ ret' = [ret EXCEPT ![t] = Raised("ensure_model_loaded", 500)]
            /\ mlock' = {}
            /\ failCount' = failCount + 1
            /\ UNCHANGED loadCount
    /\ UNCHANGED <<frame, vmVars, model, device, modelVersion>>

\* self._model = model
ModelSet(t) ==
    /\ pc[t] = "m_set_model"
    /\ model' = "loaded"
    /\ Goto(t, "m_set_device")
    /\ UNCHANGED <<frame, ret, vmVars, device, modelVersion, mlock, loadCount, failCount>>

\* self._device = getattr(model, "device", None)
ModelSetDevice(t) ==
    /\ pc[t] = "m_set_device"
    /\ device' = "model.device"
    /\ Goto(t, "m_set_version")
    /\ UNCHANGED <<frame, ret, vmVars, model, modelVersion, mlock, loadCount, failCount>>

\* self._model_version = getattr(model, "model_version", None); the lock is left
ModelSetVersion(t) ==
    /\ pc[t] = "m_set_version"
    /\ modelVersion' = "model.model_version"
    /\ mlock' = {}
    /\ ret' = [ret EXCEPT ![t] = Returned("ensure_model_loaded", NoVoice)]
    /\ Goto(t, "ret")
    /\ UNCHANGED <<frame, vmVars, model, device, loadCount, failCount>>

\* a step of an ensure_model_loaded call that has begun
ModelStep(t) ==
    \/ ModelLock(t)
    \/ ModelCheck(t)
    \/ \E ok \in BOOLEAN : (ok \/ failCount < MaxFailures) /\ ModelImport(t, ok)
    \/ \E ok \in BOOLEAN : (ok \/ failCount < MaxFailures) /\ ModelConstruct(t, ok)
    \/ ModelSet(t)
    \/ ModelSetDevice(t)
    \/ ModelSetVersion(t)

\* health: "loaded": self.is_model_loaded(); no lock is taken.  The dict under
\* construction is kept in frame[t].payload
HealthLoaded(t) ==
    /\ Serving
    /\ pc[t] = "idle"
    /\ frame' = [frame EXCEPT ![t] = [BlankFrame EXCEPT
                    !.call = "health", !.payload = <<Loaded>>]]
    /\ Goto(t, "h_device")
    /\ UNCHANGED <<ret, vmVars, modelVars>>

\* health: "device": self.device()
HealthDevice(t) ==
    /\ pc[t] = "h_device"
    /\ frame' = [frame EXCEPT ![t].payload = Append(@, device)]
    /\ Goto(t, "h_version")
    /\ UNCHANGED <<ret, vmVars, modelVars>>

\* health: "version": self.model_version(), and the dict is returned
HealthVersion(t) ==
    /\ pc[t] = "h_version"
    /\ frame' = [frame EXCEPT ![t].payload = Append(@, modelVersion)]
    /\ ret' = [ret EXCEPT ![t] = Returned("health", NoVoice)]
    /\ Goto(t, "ret")
    /\ UNCHANGED <<vmVars, modelVars>>

\* a step of health
HealthStep(t) ==
    \/ HealthLoaded(t)
    \/ HealthDevice(t)
    \/ HealthVersion(t)

\* the service as it is once the application has started on an empty disk
\* with no default voice source
InitServing ==
    /\ pc = [a \in Actors |-> IF a = 0 THEN "serving" ELSE "idle"]
    /\ lock = {}
    /\ voices = <<>>
    /\ frame = [a \in Actors |-> BlankFrame]
    /\ ret = [a \in Actors |-> NoRet]
    /\ meta = Absent
    /\ tmp = Absent
    /\ files = NoFiles
    /\ dirs = {}
    /\ cfgSource = "unset"
    /\ clock = 0
    /\ saved = <<>>
    /\ loaded = <<>>
    /\ model = "none"
    /\ device = "none"
    /\ modelVersion = "none"
    /\ mlock = {}
    /\ loadCount = 0
    /\ failCount = 0
    /\ crashes = 0

\* Model loading under concurrent callers
ModelNext ==
    \/ \E t \in Threads : EnsureModelLoaded(t)
    \/ \E t \in Threads : ModelStep(t)
    \/ \E t \in Threads : HealthStep(t)
    \/ \E t \in Threads : Return(t)

ModelSpec == InitServing /\ [][ModelNext]_vars

SlugSpec == InitServing /\ [][SlugNext]_vars

-----------------------------------------------------------------------------
(* TTSService.generate, run by a request thread *)

OutputDir == "output_dir"

\* output_dir / f"{stem}.wav"
OutPath(stem) == [root |-> OutputDir, dir |-> <<>>, stem |-> stem, ext |-> ".wav"]

\* output_dir / f"{unique_id}_raw.wav"
RawOutput(uid) == OutPath(ToString(uid) \o "_raw")

\* output_dir / f"{unique_id}.wav"
FinalOutput(uid) == OutPath(ToString(uid))

\* final_output.relative_to(self.settings.output_dir)
AudioPath(p) == [dir |-> p.dir, stem |-> p.stem, ext |-> p.ext]

\* uuid.uuid4().hex: a token no other call and no file has
Uuids == 1..MaxOutputs

Fresh(uid) ==
    /\ ~Exists(RawOutput(uid))
    /\ ~Exists(FinalOutput(uid))
    /\ \A t \in Threads : frame[t].uid # uid

\* speed and pitch are counted in units of 1e-4: 1.0 and the tolerance 1e-3
Unit == 10000

Tolerance == 10

Abs(x) == IF x < 0 THEN -x ELSE x

\* the faulty variant looks at the speed only
NeedsPost_SpeedOnly(speed, pitch) == Abs(speed - Unit) > Tolerance

\* abs(speed - 1.0) > 1e-3 or abs(pitch) > 1e-3
NeedsPost(speed, pitch) == Abs(speed - Unit) > Tolerance \/ Abs(pitch) > Tolerance

\* payload.text: empty, blank, a word
Texts == { <<>>, <<" ">>, <<"h","i">> }

\* payload.speed and payload.pitch: the defaults (1.0, 0.0); speed 1.001 and
\* pitch -0.001, both within the tolerance; speed 1.0011; pitch -0.0011
Adjustments ==
    { [speed |-> Unit, pitch |-> 0],
      [speed |-> Unit + Tolerance, pitch |-> 0 - Tolerance],
      [speed |-> Unit + Tolerance + 1, pitch |-> 0],
      [speed |-> Unit, pitch |-> 0 - (Tolerance + 1)] }

\* what self._model.infer may do: raise (leaving nothing, or a partly written
\* scratch file), return None, return a path at which there is no file, or
\* write the scratch file and return its path
InferOutcomes == {"raise", "raise_left", "none", "missing", "ok"}

Generated(voice, audio) ==
    [op |-> "generate", status |-> 200, voice |-> voice, listing |-> <<>>, audio |-> audio]

\* the output root has a file of the token uid
OutputOf(uid) == Exists(RawOutput(uid)) \/ Exists(FinalOutput(uid))

\* the faulty variant does not test the text
Generate_NoCheck(t, text, arg, speed, pitch) ==
    /\ Serving
    /\ pc[t] = "idle"
    /\ frame' = [frame EXCEPT ![t] = [BlankFrame EXCEPT
                    !.call = "generate", !.text = text, !.arg = arg,
                    !.speed = speed, !.pitch = pitch]]
    /\ ret' = ret
    /\ Goto(t, "g_voice")
    /\ UNCHANGED <<vmVars, modelVars>>

\* generate: if not payload.text or not payload.text.strip(): raise 400
Generate(t, text, arg, speed, pitch) ==
    /\ Serving
    /\ pc[t] = "idle"
    /\ frame' = [frame EXCEPT ![t] = [BlankFrame EXCEPT
                    !.call = "generate", !.text = text, !.arg = arg,
                    !.speed = speed, !.pitch = pitch]]
    /\ IF text = <<>> \/ Strip(text, Whitespace) = <<>>
       THEN /\ ret' = [ret EXCEPT ![t] = Raised("generate", 400)]
            /\ Goto(t, "ret")
       ELSE /\ ret' = ret
            /\ Goto(t, "g_voice")
    /\ UNCHANGED <<vmVars, modelVars>>

\* voice = self.voice_manager.get_voice(payload.voice_id), under the registry lock
GenGetVoice(t) ==
    /\ pc[t] = "g_voice"
    /\ lock = {}
    /\ IF DictGet(voices, ResolveId(frame[t].arg)) = NoVoice
       THEN /\ ret' = [ret EXCEPT ![t] = Raised("generate", 404)]
            /\ Goto(t, "ret")
            /\ frame' = frame
       ELSE /\ frame' = [frame EXCEPT ![t].voice = DictGet(voices, ResolveId(frame[t].arg))]
            /\ Goto(t, "g_path")
            /\ ret' = ret
    /\ UNCHANGED <<vmVars, modelVars>>

\* the faulty variant does not look for the file
GenVoicePath_NoCheck(t) ==
    /\ pc[t] = "g_path"
    /\ ret' = ret
    /\ Goto(t, "g_ensure")
    /\ UNCHANGED <<frame, vmVars, modelVars>>

\* voice_path = self.voice_manager.absolute_voice_path(voice)
GenVoicePath(t) ==
    /\ pc[t] = "g_path"
    /\ IF ~Exists(Resolve(frame[t].voice.path))
       THEN /\ ret' = [ret EXCEPT ![t] = Raised("generate", 404)]
            /\ Goto(t, "ret")
       ELSE /\ ret' = ret
            /\ Goto(t, "g_ensure")
    /\ UNCHANGED <<frame, vmVars, modelVars>>

\* self.ensure_model_loaded(): its first test, if self._model is not None: return
GenEnsure(t) ==
    /\ pc[t] = "g_ensure"
    /\ IF Loaded THEN Goto(t, "g_loaded") ELSE Goto(t, "m_lock")
    /\ UNCHANGED <<frame, ret, vmVars, modelVars>>

\* ensure_model_loaded comes back to generate: its exception ends the call
GenEnsured(t) ==
    /\ pc[t] = "ret"
    /\ frame[t].call = "generate"
    /\ ret[t].op = "ensure_model_loaded"
    /\ IF ret[t].status = 200
       THEN /\ ret' = [ret EXCEPT ![t] = NoRet]
            /\ Goto(t, "g_loaded")
       ELSE /\ ret' = [ret EXCEPT ![t] = Raised("generate", 500)]
            /\ pc' = pc
    /\ UNCHANGED <<frame, vmVars, modelVars>>

\* if self._model is None: raise 500; unique_id, raw_output, final_output
GenPaths(t, uid) ==
    /\ pc[t] = "g_loaded"
    /\ IF ~Loaded
       THEN /\ ret' = [ret EXCEPT ![t] = Raised("generate", 500)]
            /\ Goto(t, "ret")
            /\ frame' = frame
       ELSE /\ Fresh(uid)
            /\ frame' = [frame EXCEPT ![t].uid = uid]
            /\ Goto(t, "g_infer")
            /\ ret' = ret
    /\ UNCHANGED <<vmVars, modelVars>>

\* generated_path = self._model.infer(..., output_path=str(raw_output))
GenInfer(t, outcome) ==
    /\ pc[t] = "g_infer"
    /\ LET raw == RawOutput(frame[t].uid)
       IN  /\ files' = CASE outcome = "ok" -> PutFile(files, raw, Complete)
                         [] outcome = "raise_left" -> PutFile(files, raw, Partial)
                         [] OTHER -> files
           /\ IF outcome \in {"raise", "raise_left"}
              THEN /\ ret' = [ret EXCEPT ![t] = Raised("generate", 500)]
                   /\ Goto(t, "ret")
                   /\ frame' = [frame EXCEPT ![t].infers = @ + 1]
              ELSE /\ frame' = [frame EXCEPT
                                   ![t].infers = @ + 1,
                                   ![t].generated = IF outcome = "none" THEN NoAudio ELSE raw]
                   /\ Goto(t, "g_check")
                   /\ ret' = ret
    /\ UNCHANGED <<lock, voices, meta, tmp, dirs, cfgSource, clock, saved, loaded,
                   modelVars, crashes>>

\* the faulty variant trusts the path the model returned
GenCheck_NoExists(t) ==
    /\ pc[t] = "g_check"
    /\ IF frame[t].generated = NoAudio
       THEN /\ ret' = [ret EXCEPT ![t] = Raised("generate", 500)]
            /\ Goto(t, "ret")
       ELSE /\ ret' = ret
            /\ IF NeedsPost(frame[t].speed, frame[t].pitch)
               THEN Goto(t, "p_load")
               ELSE Goto(t, "g_move")
    /\ UNCHANGED <<frame, vmVars, modelVars>>

\* if not generated_path or not Path(generated_path).exists(): raise 500;
\* then the test of speed and pitch
GenCheck(t) ==
    /\ pc[t] = "g_check"
    /\ IF frame[t].generated = NoAudio \/ ~Exists(frame[t].generated)
       THEN /\ ret' = [ret EXCEPT ![t] = Raised("generate", 500)]
            /\ Goto(t, "ret")
       ELSE /\ ret' = ret
            /\ IF NeedsPost(frame[t].speed, frame[t].pitch)
               THEN Goto(t, "p_load")
               ELSE Goto(t, "g_move")
    /\ UNCHANGED <<frame, vmVars, modelVars>>

\* Path(generated_path).replace(final_output), and the result is returned; the
\* replace raises when the source is not there
GenMove(t, ok) ==
    /\ pc[t] = "g_move"
    /\ ok => Exists(frame[t].generated)
    /\ IF ok
       THEN /\ files' = PutFile(RemoveFile(files, frame[t].generated),
                                FinalOutput(frame[t].uid), files[frame[t].generated])
            /\ ret' = [ret EXCEPT ![t] =
                         Generated(frame[t].voice, AudioPath(FinalOutput(frame[t].uid)))]
       ELSE /\ files' = files
            /\ ret' = [ret EXCEPT ![t] = Raised("generate", 500)]
    /\ Goto(t, "ret")
    /\ UNCHANGED <<frame, lock, voices, meta, tmp, dirs, cfgSource, clock, saved, loaded,
                   modelVars, crashes>>

\* apply_speed_and_pitch is called: librosa.load, the test of y.size,
\* time_stretch and pitch_shift; any of them may raise
PostLoad(t, ok) ==
    /\ pc[t] = "p_load"
    /\ frame' = [frame EXCEPT ![t].posts = @ + 1, ![t].failed = ~ok]
    /\ IF ok THEN Goto(t, "p_open") ELSE Goto(t, "g_unlink")
    /\ UNCHANGED <<ret, vmVars, modelVars>>

\* sf.write(destination, ...): the destination is created and opened for writing
PostOpen(t) ==
    /\ pc[t] = "p_open"
    /\ files' = PutFile(files, FinalOutput(frame[t].uid), Partial)
    /\ Goto(t, "p_write")
    /\ UNCHANGED <<frame, ret, lock, voices, meta, tmp, dirs, cfgSource, clock, saved,
                   loaded, modelVars, crashes>>

\* sf.write: the samples are written and the file closed, or the write fails
PostWrite(t, ok) ==
    /\ pc[t] = "p_write"
    /\ files' = IF ok THEN PutFile(files, FinalOutput(frame[t].uid), Complete) ELSE files
    /\ frame' = [frame EXCEPT ![t].failed = ~ok]
    /\ Goto(t, "g_unlink")
    /\ UNCHANGED <<ret, lock, voices, meta, tmp, dirs, cfgSource, clock, saved,
                   loaded, modelVars, crashes>>

\* finally: Path(generated_path).unlink(missing_ok=True); then the exception of
\* apply_speed_and_pitch goes on, or the result is returned
GenUnlink(t) ==
    /\ pc[t] = "g_unlink"
    /\ files' = IF Exists(frame[t].generated)
                THEN RemoveFile(files, frame[t].generated) ELSE files
    /\ ret' = [ret EXCEPT ![t] =
                 IF frame[t].failed
                 THEN Raised("generate", 500)
                 ELSE Generated(frame[t].voice, AudioPath(FinalOutput(frame[t].uid)))]
    /\ Goto(t, "ret")
    /\ UNCHANGED <<frame, lock, voices, meta, tmp, dirs, cfgSource, clock, saved,
                   loaded, modelVars, crashes>>

\* a voice file is deleted out of band while the application is serving
Unlink(p) ==
    /\ Serving
    /\ Exists(p)
    /\ files' = RemoveFile(files, p)
    /\ UNCHANGED <<pc, lock, voices, frame, ret, meta, tmp, dirs, cfgSource, clock,
                   saved, loaded, modelVars, crashes>>

\* a step of a generate call that has begun
GenStep(t) ==
    \/ GenGetVoice(t)
    \/ GenVoicePath(t)
    \/ GenEnsure(t)
    \/ GenEnsured(t)
    \/ \E uid \in Uuids : GenPaths(t, uid)
    \/ \E outcome \in InferOutcomes : GenInfer(t, outcome)
    \/ GenCheck(t)
    \/ \E ok \in BOOLEAN : GenMove(t, ok)
    \/ \E ok \in BOOLEAN : PostLoad(t, ok)
    \/ PostOpen(t)
    \/ \E ok \in BOOLEAN : PostWrite(t, ok)
    \/ GenUnlink(t)

\* The service under generate requests, from the start of the application.  The
\* handler of /generate is a coroutine that calls generate without awaiting, so
\* the event loop runs one call at a time; a call begins while a token is left
\* for its output
GenNext ==
    \/ MainStep
    \/ SaveStep
    \/ \E t \in Threads, text \in Texts, arg \in VoiceIdArgs, adj \in Adjustments :
          /\ \A u \in Threads \ {t} : pc[u] = "idle"
          /\ Cardinality({u \in Uuids : OutputOf(u)}) < MaxOutputs
          /\ Generate(t, text, arg, adj.speed, adj.pitch)
    \/ \E t \in Threads : GenStep(t)
    \/ \E t \in Threads : ModelStep(t)
    \/ \E t \in Threads : ret[t].op # "ensure_model_loaded" /\ Return(t)
    \/ \E p \in DOMAIN files : p.root = VoicesDir /\ Unlink(p)

GenSpec == Init /\ [][GenNext]_vars

-----------------------------------------------------------------------------
(* Claims *)

AddReturned(t) == ret[t].op = "add_voice" /\ ret[t].status = 200

\* C1: two add_voice calls for display names with the same slug, under every
\* interleaving of their steps, return two distinct ids, and both ids are
\* afterwards resolvable by get_voice.
C1_ConcurrentAddsGetDistinctIds ==
    \A t \in Threads : \A u \in Threads \ {t} :
        (AddReturned(t) /\ AddReturned(u) /\ frame[t].slug = frame[u].slug)
            => /\ ret[t].voice.id # ret[u].voice.id
               /\ Has(voices, ret[t].voice.id)
               /\ Has(voices, ret[u].voice.id)

IsPartial(doc) == doc.state = "partial"

\* C2: whatever step of _save the process dies at, the metadata file a later
\* _load sees is the complete previous document or the complete new one: every
\* step leaves the file as it was or replaces it by the whole serialised map,
\* and it is never a partially written document.
C2_MetadataFileIsOldOrNew ==
    [][ /\ ~IsPartial(meta')
        /\ \/ meta' = meta
           \/ meta' = CompleteDoc(Payload(voices)) ]_vars

\* C2 witness: the process died while the temporary file was partly written, was
\* restarted, and _load has read the metadata file of an earlier save
C2_Witness_LoadAfterCrashInSave ==
    /\ pc[0] = "loaded"
    /\ IsPartial(tmp)
    /\ meta.state = "complete"
    /\ crashes > 0

\* the id the claim names: the bare slug if free, else slug-k for the least k >= 2
\* such that slug-k is free
ExpectedId(slug, vs) ==
    IF ~Has(vs, slug) THEN slug
    ELSE Suffixed(slug,
            CHOOSE k \in 2..(Len(vs) + 2) :
                /\ ~Has(vs, Suffixed(slug, k))
                /\ \A j \in 2..(k - 1) : Has(vs, Suffixed(slug, j)))

\* C3: when requests are served one at a time, the id add_voice settles on is
\* the bare slug when no entry has it, else slug-k for the least k >= 2 with
\* slug-k free (so slug, then slug-2, for the same name twice); every voice it
\* returned is listed and has its file on disk.
C3_SequentialIdIsFirstFreeSuffix ==
    /\ \A t \in Threads :
         pc[t] \in {"target", "open", "copy", "insert"}
            => /\ frame[t].candidate = ExpectedId(frame[t].slug, voices)
               /\ (Has(voices, frame[t].slug) /\ ~Has(voices, Suffixed(frame[t].slug, 2)))
                     => frame[t].candidate = Suffixed(frame[t].slug, 2)
    /\ \A t \in Threads :
         AddReturned(t)
            => /\ ret[t].voice.id = frame[t].candidate
               /\ DictGet(voices, ret[t].voice.id) = ret[t].voice
               /\ Exists(Resolve(ret[t].voice.path))
    /\ \A i \in 1..Len(voices) : Exists(Resolve(voices[i].path))

\* C3 witness: slug and slug-2 were taken, and add_voice returned slug-3
C3_Witness_ThirdSuffix ==
    \E t \in Threads :
        /\ AddReturned(t)
        /\ frame[t].counter = 3
        /\ ret[t].voice.id = Suffixed(frame[t].slug, 3)
        /\ Has(voices, frame[t].slug)
        /\ Has(voices, Suffixed(frame[t].slug, 2))

Blank(name) == \A i \in 1..Len(name) : name[i] \in Whitespace

\* C4: add_voice with an empty or whitespace-only display name fails with
\* status 400 and stores nothing (map, metadata file, voice files and
\* directories are as before); a call that goes on has a name that is not blank.
C4_BlankNameRejectedNothingStored ==
    [][ \A t \in Threads :
          /\ (pc[t] = "idle" /\ pc'[t] = "lock") => ~Blank(frame'[t].name)
          /\ (pc[t] = "idle" /\ pc'[t] = "ret" /\ ret'[t].op = "add_voice")
                => /\ Blank(frame'[t].name)
                   /\ ret'[t].status = 400
                   /\ UNCHANGED <<voices, meta, tmp, files, dirs>>
          /\ \A i \in 1..Len(voices') : ~Blank(voices'[i].name) ]_vars

\* C4 witness: an add_voice with the name " " has failed with status 400
C4_Witness_BlankRejected ==
    \E t \in Threads :
        /\ ret[t] = Raised("add_voice", 400)
        /\ frame[t].name = <<" ">>

\* id, name and path of every entry, in order
Identity(vs) == [i \in 1..Len(vs) |-> [id |-> vs[i].id, name |-> vs[i].name, path |-> vs[i].path]]

FileKept(v) == Exists(Resolve(v.path))

\* C5: what a fresh VoiceManager holds after _load is exactly what the last
\* completed _save saved (same ids, names, paths), minus exactly the entries
\* whose file has been deleted since.
C5_SaveLoadRoundTrip ==
    pc[0] = "loaded" => Identity(voices) = Identity(SelectSeq(saved, FileKept))

\* C5 witness: two voices were saved, one file was deleted, and _load kept the other
C5_Witness_OneDropped ==
    /\ pc[0] = "loaded"
    /\ Len(saved) = 2
    /\ Len(voices) = 1

\* C6: with the default voice source present, bootstrap seeds the default voice
\* exactly when _load left the map empty, and then the map holds exactly one
\* entry, with the default voice id; when _load found a voice, the map is what
\* _load made it.
C6_SeedsDefaultIffLoadedEmpty ==
    (pc[0] = "boot_done" /\ cfgSource = "present")
        => IF loaded = <<>>
           THEN /\ Len(voices) = 1
                /\ voices[1].id = DefaultVoiceId
                /\ FileKept(voices[1])
           ELSE voices = loaded

\* C6 witness: _load found nothing and bootstrap ends with the default voice alone
C6_Witness_Seeded ==
    /\ pc[0] = "boot_done"
    /\ cfgSource = "present"
    /\ loaded = <<>>
    /\ Ids(voices) = {DefaultVoiceId}

\* bootstrap has loaded nothing and has no default voice source to seed from
DegradedBoot ==
    /\ pc[0] \in {"loaded", "seed"}
    /\ cfgSource # "present"
    /\ loaded = <<>>

\* C7: with the default voice source unset or missing and nothing loaded,
\* bootstrap ends (it does not fail) with an empty map and writes neither the
\* metadata file nor a voice file; get_voice(None) on that empty map fails
\* with status 404.
C7_DegradedBootstrapIsEmpty ==
    [][ /\ (pc'[0] = "boot_done" /\ cfgSource' # "present" /\ loaded' = <<>>)
              => voices' = <<>>
        /\ DegradedBoot
              => /\ UNCHANGED <<voices, meta, tmp, files, dirs>>
                 /\ pc'[0] \in {"seed", "boot_done", "down"}
                 /\ pc'[0] = "down" => crashes' # crashes
        /\ \A t \in Threads :
              (pc[t] = "idle" /\ pc'[t] = "ret" /\ ret'[t].op = "get_voice"
                 /\ ~frame'[t].arg.given /\ voices = <<>>)
                 => ret'[t] = Raised("get_voice", 404) ]_vars

\* C7 witness: bootstrap ended empty with the source file missing, and
\* get_voice(None) failed with status 404
C7_Witness_NoDefault ==
    \E t \in Threads :
        /\ pc[0] = "serving"
        /\ cfgSource = "missing"
        /\ voices = <<>>
        /\ ret[t] = Raised("get_voice", 404)
        /\ ~frame[t].arg.given

\* C8: get_voice(id) returns the entry stored under id, or under the default
\* voice id when id is None; it fails with status 404 exactly when the map has
\* no entry for that id; it changes neither the map nor the disk.
C8_GetVoiceResolvesOrNotFound ==
    [][ \A t \in Threads :
          (pc[t] = "idle" /\ pc'[t] = "ret" /\ ret'[t].op = "get_voice")
             => LET asked == frame'[t].arg
                    rid == IF asked.given THEN asked.id ELSE DefaultVoiceId
                    hits == {i \in 1..Len(voices) : voices[i].id = rid}
                IN  /\ ret'[t].status \in {200, 404}
                    /\ ret'[t].status = 404 <=> hits = {}
                    /\ ret'[t].status = 200 => \E i \in hits : ret'[t].voice = voices[i]
                    /\ UNCHANGED <<voices, meta, tmp, files, dirs>> ]_vars

\* C8 witness: get_voice(None) has returned the default voice
C8_Witness_DefaultResolved ==
    \E t \in Threads :
        /\ ret[t].op = "get_voice"
        /\ ret[t].status = 200
        /\ ~frame[t].arg.given
        /\ ret[t].voice.id = DefaultVoiceId

\* C9: every voice in the map that add_voice put there has a completely written
\* file under the voices root, in every state from the one in which it becomes
\* visible.
C9_VisibleVoiceFileIsComplete ==
    \A i \in 1..Len(voices) :
        voices[i].path.stem = "prompt"
            => /\ Exists(Resolve(voices[i].path))
               /\ files[Resolve(voices[i].path)] = Complete

InLoad == {t \in Threads : pc[t] \in {"m_import", "m_construct", "m_set_model",
                                       "m_set_device", "m_set_version"}}

\* C10: however many callers of ensure_model_loaded there are, and however they
\* interleave, the constructor of the model succeeds at most once, exactly once
\* when the model is loaded; at most one caller is loading at a time; every
\* caller that returns normally finds the model loaded.
C10_ModelLoadedOnce ==
    /\ loadCount <= 1
    /\ Loaded => loadCount = 1
    /\ Cardinality(InLoad) <= 1
    /\ \A t \in Threads :
         ret[t] = Returned("ensure_model_loaded", NoVoice) => Loaded /\ loadCount = 1

\* C10 witness: a caller that waited for the lock finds, under the lock, the
\* model another caller has loaded
C10_Witness_SecondCallerBlocked ==
    \E t \in Threads : \E u \in Threads \ {t} :
        /\ pc[t] = "m_check"
        /\ Loaded
        /\ ret[u] = Returned("ensure_model_loaded", NoVoice)

GenReturned(t) == ret[t].op = "generate" /\ ret[t].status = 200

GenFailed(t) == ret[t].op = "generate" /\ ret[t].status # 200

\* C11: no partly written file is ever at a final output path: a file at
\* output_dir/<token>.wav is complete in every state; when generate has
\* returned, its final file exists; when generate has failed (in synthesis, in
\* post-processing or in the move), there is no file at its final path.
C11_NoPartialFinalOutput ==
    /\ \A uid \in Uuids :
         Exists(FinalOutput(uid)) => files[FinalOutput(uid)] = Complete
    /\ \A t \in Threads :
         /\ GenReturned(t) => Exists(FinalOutput(frame[t].uid))
         /\ (GenFailed(t) /\ frame[t].uid # 0) => ~Exists(FinalOutput(frame[t].uid))

\* C12: generate with an empty or whitespace-only text fails with status 400 in
\* its first step: no model load is started, neither the synthesis model nor
\* the post-processor is called, and no file is created; a call that goes on
\* has a text that is not blank.
C12_BlankTextRejectedFirst ==
    [][ \A t \in Threads :
          /\ (pc[t] = "idle" /\ frame'[t].call = "generate" /\ Blank(frame'[t].text))
                => /\ ret'[t] = Raised("generate", 400)
                   /\ pc'[t] = "ret"
                   /\ frame'[t].infers = 0
                   /\ frame'[t].posts = 0
                   /\ frame'[t].uid = 0
                   /\ UNCHANGED <<files, dirs, model, mlock, loadCount, failCount>>
          /\ (frame[t].call = "generate" /\ Blank(frame[t].text))
                => pc'[t] \in {"ret", "idle"} ]_vars

\* C12 witness: generate with the text " " has failed with status 400 while the
\* model was not loaded
C12_Witness_BlankText ==
    \E t \in Threads :
        /\ ret[t] = Raised("generate", 400)
        /\ frame[t].text = <<" ">>
        /\ ~Loaded
        /\ voices # <<>>

\* a record of the metadata file that has every field of a Voice and whose
\* file is on disk
Usable(item) ==
    /\ {"id", "name", "path", "created_at"} \subseteq DOMAIN item
    /\ Exists([root |-> VoicesDir, dir |-> item.path.dir,
               stem |-> item.path.stem, ext |-> item.path.ext])

\* C13: _load does not fail on a metadata file with records that do not parse
\* or whose file is gone; after it the map holds exactly the records that have
\* all fields and whose file exists, in their order; with no metadata file the
\* map is empty.
C13_LoadKeepsExactlyUsableRecords ==
    [][ (pc[0] = "load" /\ pc'[0] # "load")
           => \/ crashes' # crashes
              \/ /\ pc'[0] = "loaded"
                 /\ meta.state \in {"absent", "complete"}
                 /\ Payload(voices') = SelectSeq(meta.records, Usable)
                 /\ meta.state = "absent" => voices' = <<>> ]_vars

\* C13 witness: the metadata file has two records, one of them without a field,
\* and _load has kept the other
C13_Witness_BadRecordSkipped ==
    /\ pc[0] = "loaded"
    /\ Len(meta.records) = 2
    /\ \E i \in 1..2 : DOMAIN meta.records[i] # VoiceFields
    /\ Len(voices) = 1

\* C14: once add_voice has returned voice V, a get_voice(V.id) or list_voices
\* that starts afterwards, from any thread, returns V with the name and the path
\* add_voice returned, however the calls interleave.
C14_ReadAfterWrite ==
    [][ \A t \in Threads : \A u \in Threads \ {t} :
          (AddReturned(t) /\ pc[u] = "idle" /\ pc'[u] = "ret")
             => /\ (ret'[u].op = "get_voice" /\ ResolveId(frame'[u].arg) = ret[t].voice.id)
                      => /\ ret'[u].status = 200
                         /\ ret'[u].voice.name = ret[t].voice.name
                         /\ ret'[u].voice.path = ret[t].voice.path
                /\ ret'[u].op = "list_voices"
                      => \E i \in 1..Len(ret'[u].listing) :
                            /\ ret'[u].listing[i].id = ret[t].voice.id
                            /\ ret'[u].listing[i].name = ret[t].voice.name
                            /\ ret'[u].listing[i].path = ret[t].voice.path ]_vars

\* positions of a generate call from ensure_model_loaded on
AfterResolve ==
    {"g_ensure", "m_lock", "m_check", "m_import", "m_construct", "m_set_model",
     "m_set_device", "m_set_version", "g_loaded", "g_infer", "g_check", "g_move",
     "p_load", "p_open", "p_write", "g_unlink"}

\* C15: generate resolves the voice and the path of its file before it touches
\* the model: with an unknown voice id, or with the file of the voice missing
\* when absolute_voice_path looks for it, the call fails with status 404 and has
\* started no model load, called no synthesis and created no file; a call that
\* is at ensure_model_loaded or beyond has its voice.
C15_VoiceResolvedBeforeModel ==
    [][ \A t \in Threads :
          /\ ( \/ pc[t] = "g_voice" /\ ~Has(voices, ResolveId(frame[t].arg))
               \/ pc[t] = "g_path" /\ ~Exists(Resolve(frame[t].voice.path)) )
                => \/ pc'[t] = pc[t]
                   \/ /\ ret'[t] = Raised("generate", 404)
                      /\ pc'[t] = "ret"
                      /\ frame'[t].infers = 0
                      /\ frame'[t].uid = 0
                      /\ UNCHANGED <<files, dirs, model, mlock, loadCount, failCount>>
          /\ (frame'[t].call = "generate" /\ pc'[t] \in AfterResolve)
                => /\ frame'[t].voice # NoVoice
                   /\ frame'[t].voice.id = ResolveId(frame'[t].arg)
          /\ (pc[t] = "g_path" /\ pc'[t] = "g_ensure")
                => Exists(Resolve(frame[t].voice.path)) ]_vars

\* C15 witness: the voice was found, its file had been deleted, and generate has
\* failed with status 404 with the model not loaded
C15_Witness_FileMissing ==
    \E t \in Threads :
        /\ ret[t] = Raised("generate", 404)
        /\ frame[t].voice.id = DefaultVoiceId
        /\ ~Exists(Resolve(frame[t].voice.path))
        /\ ~Loaded
        /\ loadCount = 0

\* C16: when generate has returned, the post-processor was called (once) exactly
\* when speed differs from 1.0 by more than 1e-3 or pitch from 0.0 by more than
\* 1e-3, else not at all; the final file exists, complete, under the output
\* root at the relative path returned; the raw scratch file is gone; the result
\* carries the resolved voice id.
C16_PostProcessedIffAdjusted ==
    \A t \in Threads :
        GenReturned(t)
           => LET speed == frame[t].speed
                  pitch == frame[t].pitch
                  adjusted == \/ speed - Unit > Tolerance
                              \/ Unit - speed > Tolerance
                              \/ pitch > Tolerance
                              \/ 0 - pitch > Tolerance
                  final == [root |-> OutputDir, dir |-> ret[t].audio.dir,
                            stem |-> ret[t].audio.stem, ext |-> ret[t].audio.ext]
              IN  /\ frame[t].posts = IF adjusted THEN 1 ELSE 0
                  /\ frame[t].infers = 1
                  /\ final = FinalOutput(frame[t].uid)
                  /\ Exists(final)
                  /\ files[final] = Complete
                  /\ ~Exists(RawOutput(frame[t].uid))
                  /\ ret[t].voice.id = ResolveId(frame[t].arg)

\* C16 witness: generate has returned after post-processing for the pitch alone
C16_Witness_PitchOnly ==
    \E t \in Threads :
        /\ GenReturned(t)
        /\ frame[t].speed = Unit
        /\ frame[t].pitch = 0 - (Tolerance + 1)
        /\ frame[t].posts = 1

\* C17: generate calls the synthesis model at most once per call; when the
\* model raises, or returns no path or a path at which there is no file,
\* generate fails with status 500 without a call of the post-processor and
\* without a file at the final path, and the call is over.
C17_SynthesisOnceNoRetry ==
    [][ \A t \in Threads :
          /\ frame'[t].infers <= 1
          /\ (pc[t] = "g_infer" /\ pc'[t] \notin {"g_infer", "g_check"})
                => /\ ret'[t] = Raised("generate", 500)
                   /\ pc'[t] = "ret"
          /\ (pc[t] = "g_check"
                /\ (frame[t].generated = NoAudio \/ ~Exists(frame[t].generated)))
                => \/ pc'[t] = "g_check"
                   \/ /\ ret'[t] = Raised("generate", 500)
                      /\ pc'[t] = "ret"
                      /\ files' = files
          /\ (pc'[t] = "ret" /\ pc[t] \in {"g_infer", "g_check"})
                => /\ frame'[t].posts = 0
                   /\ ~ExistsIn(files', FinalOutput(frame'[t].uid))
          /\ (ret[t].op = "generate" /\ pc[t] = "ret") => pc'[t] \in {"ret", "idle"} ]_vars

\* C17 witness: the model returned a path at which there is no file, and
\* generate has failed with status 500 after one call of the model
C17_Witness_NoOutputFile ==
    \E t \in Threads :
        /\ ret[t] = Raised("generate", 500)
        /\ frame[t].infers = 1
        /\ frame[t].generated = RawOutput(frame[t].uid)
        /\ ~Exists(frame[t].generated)
        /\ frame[t].posts = 0

Alnum == LowerLetters \cup DigitChars

\* the maximal runs of characters of [a-z0-9] in s, in order; cur is the run
\* being read
RECURSIVE RunsOf(_, _)
RunsOf(s, cur) ==
    IF s = <<>> THEN (IF cur = <<>> THEN <<>> ELSE <<cur>>)
    ELSE IF Head(s) \in Alnum THEN RunsOf(Tail(s), Append(cur, Head(s)))
    ELSE (IF cur = <<>> THEN <<>> ELSE <<cur>>) \o RunsOf(Tail(s), <<>>)

\* the runs joined by single hyphens
RECURSIVE Joined(_)
Joined(runs) ==
    IF runs = <<>> THEN <<>>
    ELSE IF Len(runs) = 1 THEN runs[1]
    ELSE runs[1] \o <<"-">> \o Joined(Tail(runs))

\* C18: _slugify never returns the empty string.  For a value with a character
\* of [a-z0-9] after lower-casing, the result has only characters of [a-z0-9-],
\* neither begins nor ends with "-", has no "--", and is the runs of [a-z0-9] of
\* the lower-cased value joined by single "-"; for any other value it is
\* "voice-" followed by the time the clock shows, so the result is a function of
\* the value and the clock.
C18_SlugifyShape ==
    \A t \in Threads :
        frame[t].call = "_slugify"
           => LET value == frame[t].name
                  slug == frame[t].slug
                  lowered == [i \in 1..Len(value) |-> Lower(value[i])]
              IN  /\ slug # <<>>
                  /\ IF \E i \in 1..Len(value) : lowered[i] \in Alnum
                     THEN /\ \A i \in 1..Len(slug) : slug[i] \in Alnum \cup {"-"}
                          /\ slug[1] # "-"
                          /\ slug[Len(slug)] # "-"
                          /\ \A i \in 1..(Len(slug) - 1) : ~(slug[i] = "-" /\ slug[i + 1] = "-")
                          /\ slug = Joined(RunsOf(lowered, <<>>))
                     ELSE slug = <<"v","o","i","c","e","-">> \o ToDigits(clock)

\* C18 witness: "!A-" has become "a"
C18_Witness_Trimmed ==
    \E t \in Threads :
        /\ frame[t].call = "_slugify"
        /\ frame[t].name = <<"!", "A", "-">>
        /\ frame[t].slug = <<"a">>

\* C19: no two add_voice calls write to the same prompt file: calls that have
\* their target path have different ones, and the file add_voice opens for
\* writing is not one that is already there.
C19_NoTwoWritersOfOneFile ==
    [][ /\ \A t \in Threads : \A u \in Threads \ {t} :
             (frame'[t].target # NoTarget /\ frame'[u].target # NoTarget)
                => frame'[t].target # frame'[u].target
        /\ \A t \in Threads :
             (pc[t] = "open" /\ pc'[t] = "copy") => ~Exists(frame[t].target) ]_vars

\* id, name and path of every record of a metadata document, in order
RecordIdentity(records) ==
    [i \in 1..Len(records) |->
        [id |-> records[i].id, name |-> records[i].name, path |-> records[i].path]]

\* C20: whenever the lock is free and the map is not empty (add_voice,
\* register_voice or the seeding of the default voice has completed), the
\* metadata file is a complete document with exactly the ids, names and paths
\* of the map; while the map is empty no metadata file has been written.
C20_MetadataMirrorsMemory ==
    (lock = {} /\ pc[0] # "down")
       => IF voices = <<>>
          THEN meta = Absent
          ELSE /\ meta.state = "complete"
               /\ RecordIdentity(meta.records) = Identity(voices)

\* C20 witness: two add_voice calls have returned, the lock is free, and the
\* map and the metadata file have both voices
C20_Witness_TwoAdded ==
    /\ lock = {}
    /\ \A t \in Threads : AddReturned(t)
    /\ Len(voices) = 2
    /\ Len(meta.records) = 2

\* the files in the sub-directory of the voices root named after id
FilesOf(id) == {p \in DOMAIN files : p.root = VoicesDir /\ p.dir = id}

\* C21: every voice in the map has a sub-directory of the voices root named
\* after its id, and that sub-directory holds exactly one file, whose name is
\* prompt.<ext>.
C21_OnePromptFilePerVoice ==
    \A i \in 1..Len(voices) :
        /\ voices[i].id \in dirs
        /\ Cardinality(FilesOf(voices[i].id)) = 1
        /\ \A p \in FilesOf(voices[i].id) : p.stem = "prompt"

\* the map without the entry of id
Without(vs, id) == SelectSeq(vs, LAMBDA v : v.id # id)

\* C22: when _save raises during register_voice, add_voice fails at once (no
\* second attempt), and the map is as it was before the call: the voice the
\* call inserted is not in it, and a later get_voice does not find it.
C22_FailedSaveLeavesMapAsBefore ==
    [][ \A t \in Threads :
          (pc[t] \in {"save_open", "save_write", "save_replace"}
             /\ ret'[t] = Raised("add_voice", 500))
             => /\ pc'[t] = "ret"
                /\ voices' = Without(voices, frame[t].voice.id)
                /\ ~Has(voices', frame[t].voice.id) ]_vars

\* C23: in every state in which is_model_loaded() is true, device() and
\* model_version() are those of the loaded model, and what health has returned
\* never says loaded with an unset device or version.
C23_StatusConsistent ==
    /\ Loaded => /\ device = "model.device"
                 /\ modelVersion = "model.model_version"
    /\ \A t \in Threads :
         (ret[t].op = "health" /\ frame[t].payload[1])
            => /\ frame[t].payload[2] = "model.device"
               /\ frame[t].payload[3] = "model.model_version"

\* positions of ensure_model_loaded at which the caller holds the load lock
UnderLoadLock ==
    {"m_check", "m_import", "m_construct", "m_set_model", "m_set_device", "m_set_version"}

C25_NoScratchFileLeft ==
    \A t \in Threads :
        (frame[t].call = "generate" /\ pc[t] = "ret" /\ ret[t].op = "generate"
            /\ frame[t].uid # 0)
           => ~Exists(RawOutput(frame[t].uid))

====
